---- MODULE Spec2Model ----
(***************************************************************************)
(* The ipmitool integration: PyIpmiData (the poller and the five power     *)
(* commands), the coordinator's update method async_update_data, the       *)
(* set-up of a config entry and the device-action dispatcher.              *)
(*                                                                         *)
(* Blocking methods run as executor jobs.  A job issues its HTTP GET when  *)
(* it is started and finishes in a later step, when the bridge's answer    *)
(* (or an exception of requests.get / .json()) comes back; other jobs and  *)
(* the event loop interleave in between.                                   *)
(***************************************************************************)
EXTENDS Bags, FiniteSets, Integers, Sequences, TLC

VARIABLES data, jobs, poll, coordinator, setup, last, lastWritten

vars == <<data, jobs, poll, coordinator, setup, last, lastWritten>>

(* ------------------------------ bounds --------------------------------- *)

\* Executor jobs (update or command calls) that may be in flight at once.
MaxJobs == 2

(* --------------------------- Python values ----------------------------- *)

\* Python's None, a str, and a raised exception, as tagged records.
None == [none |-> TRUE]

Str(s) == [str |-> s]

Raise(e) == [exc |-> e]

IsStr(v) == "str" \in DOMAIN v

IsRaise(v) == "exc" \in DOMAIN v

\* Truth value of an optional str or object: None and '' are false.
Truthy(v) == v # None /\ v # Str("")

(* --------------------------- the environment --------------------------- *)

\* The config entry: host, port and the optional alias and credentials.
Aliases == {None, Str(""), Str("rack3")}

\* entry.data without the alias.
config ==
    [host |-> Str("10.0.0.5"), port |-> 623, username |-> Str("admin"),
     password |-> Str("secret")]

entry_id == Str("entry1")

\* The "device" objects the bridge reports.
DeviceAcme ==
    [manufacturer_name |-> Str("Acme"), product_name |-> Str("X1"),
     firmware_revision |-> Str("1.0")]

DeviceNoManufacturer ==
    [manufacturer_name |-> Str(""), product_name |-> Str("X1"),
     firmware_revision |-> Str("1.0")]

\* JSON bodies with success = true and every field update() reads.  No two
\* of them agree on any field, so a snapshot mixing two bodies is none of
\* the snapshots built from one body.
StatusBodies ==
    { [success |-> TRUE, device |-> DeviceAcme, power_on |-> TRUE,
       sensors |-> [temp |-> "40"], states |-> [psu |-> "ok"]],
      [success |-> TRUE, device |-> DeviceNoManufacturer, power_on |-> FALSE,
       sensors |-> [temp |-> "0"], states |-> [psu |-> "off"]] }

\* success = false with its message, success = false without one, and
\* success = true with fields missing.
RejectedBodies ==
    { [success |-> FALSE, message |-> "auth failed"],
      [success |-> FALSE],
      [success |-> TRUE, device |-> DeviceAcme, power_on |-> TRUE] }

\* What requests.get(...).json() gives a caller: a parsed body, or an
\* exception (no connection, a body that is not JSON).
Responses ==
    StatusBodies \cup RejectedBodies
        \cup {Raise("ConnectionError"), Raise("JSONDecodeError")}

(* ------------------------------ the code ------------------------------- *)

IpmiDeviceInfo(device, power_on, sensors, states, alias) ==
    [device |-> device, power_on |-> power_on, sensors |-> sensors,
     states |-> states, alias |-> alias]

PyIpmiData(host, port, alias, username, password) ==
    [host |-> host, port |-> port, alias |-> alias, username |-> username,
     password |-> password, device_info |-> None]

\* getJson: the URL requested, written as its suffix after IPMI_URL.
getJson_url(path) ==
    IF path # None THEN "/" \o path.str ELSE ""

\* update() with a failed poll clearing the cached snapshot.
update_clears(self, ret) ==
    IF ret \in StatusBodies
    THEN [self |-> [self EXCEPT !.device_info =
                       IpmiDeviceInfo(ret.device, ret.power_on, ret.sensors,
                                      ret.states, self.alias)],
          logged |-> 0, raised |-> None]
    ELSE [self |-> [self EXCEPT !.device_info = None],
          logged |-> 1, raised |-> None]

\* update() filling the cached snapshot in place: the sensors of a snapshot
\* already held are kept.
update_merge(self, ret) ==
    IF ret \in StatusBodies
    THEN [self |-> [self EXCEPT !.device_info =
                       IpmiDeviceInfo(ret.device, ret.power_on,
                                      IF self.device_info = None
                                      THEN ret.sensors
                                      ELSE self.device_info.sensors,
                                      ret.states, self.alias)],
          logged |-> 0, raised |-> None]
    ELSE [self |-> self, logged |-> 1, raised |-> None]

\* update(), given what getJson(None) returned or raised: the object
\* afterwards, the number of _LOGGER.error calls, the exception that leaves
\* the method.
update(self, ret) ==
    LET caught == [self |-> self, logged |-> 1, raised |-> None]
    IN  IF IsRaise(ret) THEN caught
        ELSE IF "success" \notin DOMAIN ret THEN caught
        ELSE IF ret.success
        THEN IF {"device", "power_on", "sensors", "states"} \subseteq DOMAIN ret
             THEN [self |-> [self EXCEPT !.device_info =
                                IpmiDeviceInfo(ret.device, ret.power_on,
                                               ret.sensors, ret.states,
                                               self.alias)],
                   logged |-> 0, raised |-> None]
             ELSE caught
        ELSE IF "message" \in DOMAIN ret
        THEN [self |-> self, logged |-> 1, raised |-> None]
        ELSE caught

\* The five command methods and the path each passes to getJson.
CommandPath ==
    [power_on |-> "power_on", power_off |-> "power_off",
     power_cycle |-> "power_cycle", power_reset |-> "power_reset",
     soft_shutdown |-> "soft_shutdown"]

CommandNames == DOMAIN CommandPath

\* A command method that drops the cached snapshot.
command_clears(self, ret) ==
    [self |-> [self EXCEPT !.device_info = None],
     logged |-> IF IsRaise(ret) THEN 1 ELSE 0, raised |-> None]

\* A command method without its try/except.
command_propagates(self, ret) ==
    [self |-> self, logged |-> 0,
     raised |-> IF IsRaise(ret) THEN ret ELSE None]

\* A command method, given what its getJson call returned or raised.
command(self, ret) ==
    [self |-> self, logged |-> IF IsRaise(ret) THEN 1 ELSE 0, raised |-> None]

\* _unique_id_from_status preferring the product name to the manufacturer.
unique_id_from_status_product_first(device_info) ==
    LET alias == device_info.alias
        manufacturer == device_info.device.manufacturer_name
        product_name == device_info.device.product_name
        first == IF Truthy(product_name) THEN <<product_name.str>>
                 ELSE IF Truthy(manufacturer) THEN <<manufacturer.str>>
                 ELSE <<>>
    IN  [ret |-> IF ~Truthy(alias) THEN None
                 ELSE IF first = <<>> THEN alias
                 ELSE Str(first[1] \o "_" \o alias.str),
         arg |-> device_info]

\* _unique_id_from_status: the value returned and the argument afterwards.
unique_id_from_status(device_info) ==
    LET alias == device_info.alias
        manufacturer == device_info.device.manufacturer_name
        product_name == device_info.device.product_name
        unique_id_group ==
            (IF Truthy(manufacturer) THEN <<manufacturer.str>>
             ELSE IF Truthy(product_name) THEN <<product_name.str>>
             ELSE <<>>)
            \o (IF Truthy(alias) THEN <<alias.str>> ELSE <<>>)
    IN  [ret |-> IF ~Truthy(alias) THEN None
                 ELSE IF Len(unique_id_group) = 2
                 THEN Str(unique_id_group[1] \o "_" \o unique_id_group[2])
                 ELSE Str(unique_id_group[1]),
         arg |-> device_info]

\* Python's a + b on optional strs.
py_add(a, b) ==
    IF IsStr(a) /\ IsStr(b) THEN Str(a.str \o b.str) ELSE Raise("TypeError")

\* unique_id as lines 103-105 of async_setup_entry compute it.
setup_unique_id(alias, deviceInfo) ==
    LET unique_id == py_add(alias, unique_id_from_status(deviceInfo).ret)
    IN  IF unique_id = None THEN entry_id ELSE unique_id

\* getattr(data, device_action_name) followed by the executor calling it.
Methods == {"update", "getJson"} \cup CommandNames

Properties == {"name", "device_info"}

DispatchNames == Methods \cup Properties \cup {"reboot"}

dispatch(device_action_name) ==
    IF device_action_name \notin Methods \cup Properties
    THEN Raise("AttributeError")
    ELSE IF device_action_name \in Properties THEN Raise("TypeError")
    ELSE IF device_action_name = "getJson" THEN Raise("TypeError")
    ELSE Str(device_action_name)

(* ------------------------------ the state ------------------------------ *)

Job(n, origin, path) ==
    [name |-> n, origin |-> origin, timedOut |-> FALSE,
     paths |-> <<getJson_url(path)>>]

NoCall ==
    [name |-> "", origin |-> "", ret |-> None, paths |-> <<>>, logged |-> 0,
     raised |-> None, timedOut |-> FALSE, before |-> None, after |-> None]

Init ==
    /\ \E alias \in Aliases :
          data = PyIpmiData(config.host, config.port, alias,
                            config.username, config.password)
    /\ jobs = EmptyBag
    /\ poll = [pc |-> "idle", failed |-> FALSE]
    /\ coordinator = [result |-> "none", failed |-> FALSE, data |-> None]
    /\ setup = [pc |-> "first_refresh", unique_id |-> None,
                derived |-> None, deviceInfo |-> None, returned |-> FALSE]
    /\ last = NoCall
    /\ lastWritten = None

InFlight == BagCardinality(jobs)

\* async_update_data up to its await: the executor starts data.update.
async_update_data_call ==
    /\ poll.pc = "idle"
    /\ \/ setup.pc = "first_refresh" /\ coordinator.result = "none"
       \/ setup.pc = "loaded"
    /\ InFlight < MaxJobs
    /\ jobs' = jobs (+) SetToBag({Job("update", "poll", None)})
    /\ poll' = [pc |-> "waiting", failed |-> FALSE]
    /\ UNCHANGED <<data, coordinator, setup, last, lastWritten>>

\* An update job gets the answer to its request and runs to its end.
update_return ==
    \E j \in BagToSet(jobs), ret \in Responses :
        /\ j.name = "update"
        /\ LET r == update(data, ret)
           IN  /\ data' = r.self
               /\ last' = [name |-> j.name, origin |-> j.origin, ret |-> ret,
                           paths |-> j.paths, logged |-> r.logged,
                           raised |-> r.raised, timedOut |-> j.timedOut,
                           before |-> data.device_info,
                           after |-> r.self.device_info]
               /\ poll' = IF j.origin = "poll" /\ ~j.timedOut
                          THEN [pc |-> "joined", failed |-> r.logged > 0]
                          ELSE poll
        /\ lastWritten' = IF ret \in StatusBodies
                          THEN IpmiDeviceInfo(ret.device, ret.power_on,
                                              ret.sensors, ret.states,
                                              data.alias)
                          ELSE lastWritten
        /\ jobs' = jobs (-) SetToBag({j})
        /\ UNCHANGED <<coordinator, setup>>

\* async_update_data after its await returned.
async_update_data_resume ==
    /\ poll.pc = "joined"
    /\ coordinator' =
          IF ~Truthy(data.device_info)
          THEN [coordinator EXCEPT !.result = "UpdateFailed",
                                   !.failed = poll.failed]
          ELSE [result |-> "returned", failed |-> poll.failed,
                data |-> data.device_info]
    /\ poll' = [pc |-> "idle", failed |-> FALSE]
    /\ UNCHANGED <<data, jobs, setup, last, lastWritten>>

\* The timeout of async_update_data fires while the job is still running;
\* the job is not stopped.
async_update_data_timeout ==
    /\ poll.pc = "waiting"
    /\ LET j == Job("update", "poll", None)
       IN  jobs' = (jobs (-) SetToBag({j}))
                      (+) SetToBag({[j EXCEPT !.timedOut = TRUE]})
    /\ coordinator' = [coordinator EXCEPT !.result = "TimeoutError",
                                          !.failed = TRUE]
    /\ poll' = [pc |-> "idle", failed |-> FALSE]
    /\ UNCHANGED <<data, setup, last, lastWritten>>

\* async_setup_entry after the first refresh.
async_setup_entry ==
    /\ setup.pc = "first_refresh"
    /\ coordinator.result # "none"
    /\ poll.pc = "idle"
    /\ setup' =
          IF coordinator.result # "returned"
          THEN [setup EXCEPT !.pc = "not_ready"]
          ELSE LET deviceInfo == coordinator.data
                   unique_id == setup_unique_id(data.alias, deviceInfo)
               IN  IF IsRaise(unique_id)
                   THEN [pc |-> "raised", unique_id |-> unique_id,
                         derived |-> unique_id_from_status(deviceInfo),
                         deviceInfo |-> deviceInfo, returned |-> FALSE]
                   ELSE [pc |-> "loaded", unique_id |-> unique_id,
                         derived |-> unique_id_from_status(deviceInfo),
                         deviceInfo |-> deviceInfo, returned |-> TRUE]
    /\ UNCHANGED <<data, jobs, poll, coordinator, last, lastWritten>>

\* A device action is dispatched by name.
async_call_action_from_config ==
    \E device_action_name \in DispatchNames :
        /\ setup.pc = "loaded"
        /\ InFlight < MaxJobs
        /\ LET c == dispatch(device_action_name)
           IN  IF IsRaise(c)
               THEN /\ last' = [NoCall EXCEPT !.name = device_action_name,
                                              !.origin = "action",
                                              !.raised = c,
                                              !.before = data.device_info,
                                              !.after = data.device_info]
                    /\ jobs' = jobs
               ELSE /\ jobs' = jobs (+) SetToBag({
                           Job(c.str, "action",
                               IF c.str \in CommandNames
                               THEN Str(CommandPath[c.str]) ELSE None)})
                    /\ last' = last
        /\ UNCHANGED <<data, poll, coordinator, setup, lastWritten>>

\* A command job gets the answer to its request and runs to its end.
command_return ==
    \E j \in BagToSet(jobs), ret \in Responses :
        /\ j.name \in CommandNames
        /\ LET r == command(data, ret)
           IN  /\ data' = r.self
               /\ last' = [name |-> j.name, origin |-> j.origin, ret |-> ret,
                           paths |-> j.paths, logged |-> r.logged,
                           raised |-> r.raised, timedOut |-> j.timedOut,
                           before |-> data.device_info,
                           after |-> r.self.device_info]
        /\ jobs' = jobs (-) SetToBag({j})
        /\ UNCHANGED <<poll, coordinator, setup, lastWritten>>

Next ==
    \/ async_update_data_call
    \/ update_return
    \/ async_update_data_resume
    \/ async_update_data_timeout
    \/ async_setup_entry
    \/ async_call_action_from_config
    \/ command_return

Spec == Init /\ [][Next]_vars

(* ------------------- identity derivation on its own -------------------- *)

\* Values the bridge may report for a name, and aliases an entry may hold.
Manufacturers == {None, Str(""), Str("Acme"), Str("Dell")}

ProductNames == {None, Str(""), Str("X1"), Str("R740")}

AliasInputs == {None, Str(""), Str("rack3"), Str("lab")}

\* The state in which async_setup_entry resumes after a first refresh that
\* stored a snapshot with the given manufacturer, product and alias.
InitId ==
    \E m \in Manufacturers, p \in ProductNames, a \in AliasInputs :
        LET info == IpmiDeviceInfo(
                        [manufacturer_name |-> m, product_name |-> p,
                         firmware_revision |-> Str("1.0")],
                        TRUE, [temp |-> "40"], [psu |-> "ok"], a)
        IN  /\ data = [PyIpmiData(config.host, config.port, a,
                                  config.username, config.password)
                          EXCEPT !.device_info = info]
            /\ jobs = EmptyBag
            /\ poll = [pc |-> "idle", failed |-> FALSE]
            /\ coordinator = [result |-> "returned", failed |-> FALSE,
                              data |-> info]
            /\ setup = [pc |-> "first_refresh", unique_id |-> None,
                        derived |-> None, deviceInfo |-> None,
                        returned |-> FALSE]
            /\ last = NoCall
            /\ lastWritten = info

SpecId == InitId /\ [][async_setup_entry]_vars

(* ------------------------------- claims -------------------------------- *)

\* The snapshot update() builds from one successful body.
SnapshotOf(body) ==
    [device |-> body.device, power_on |-> body.power_on,
     sensors |-> body.sensors, states |-> body.states, alias |-> data.alias]

\* The last call to finish was an update() whose poll failed.
FailedUpdate == last.name = "update" /\ last.ret \notin StatusBodies

\* C1: a failed poll (success = false, a body update() cannot read, or an
\* exception of the HTTP call) leaves the cached snapshot as it was; a stored
\* snapshot is never cleared to None.
C1_FailedPollKeepsSnapshot ==
    FailedUpdate =>
        /\ last.after = last.before
        /\ last.before # None => last.after # None

\* A poll failed while a snapshot of an earlier poll was cached.
C1_Witness ==
    FailedUpdate /\ last.origin = "poll" /\ last.before # None

\* C2: every poll cycle whose update() failed is reported to the scheduler
\* as a failure: async_update_data raises UpdateFailed, with or without a
\* cached snapshot.
C2_FailedPollIsReported ==
    (coordinator.failed /\ coordinator.result # "TimeoutError")
        => coordinator.result = "UpdateFailed"

\* C3: after a successful poll the cached snapshot is exactly the snapshot
\* of that response (device, power_on, sensors, states) with the configured
\* alias; nothing of the previous snapshot is kept.
C3_SuccessfulPollReplacesSnapshot ==
    (last.name = "update" /\ last.ret \in StatusBodies)
        => last.after = SnapshotOf(last.ret)

\* A successful poll replaced a different cached snapshot, after a poll cycle
\* that had failed.
C3_Witness ==
    /\ last.name = "update"
    /\ last.ret \in StatusBodies
    /\ last.before # None
    /\ last.before # last.after
    /\ coordinator.failed

\* C4: a dispatched action named after one of the five commands issues
\* exactly one GET, to that command's path; any other name fails with an
\* error and issues no request.
C4_DispatchOnlyCommands ==
    last.origin = "action" =>
        IF last.name \in CommandNames
        THEN last.paths = <<"/" \o last.name>>
        ELSE IsRaise(last.raised) /\ last.paths = <<>>

\* The identifier the claim C5 expects for a first snapshot.
ExpectedIdentity(deviceInfo) ==
    LET m == deviceInfo.device.manufacturer_name
        p == deviceInfo.device.product_name
    IN  IF Truthy(deviceInfo.alias)
        THEN Str((IF Truthy(m) THEN m.str ELSE p.str) \o "_"
                     \o deviceInfo.alias.str)
        ELSE entry_id

\* C5: after a successful first poll, set-up returns true and registers the
\* device under '<manufacturer-or-product>_<alias>' when an alias is
\* configured and under the entry's entry_id when none is.
C5_RegisteredIdentity ==
    setup.pc \in {"loaded", "raised"} =>
        /\ setup.returned
        /\ setup.unique_id = ExpectedIdentity(setup.deviceInfo)

\* C6: _unique_id_from_status returns None when the alias is absent or
\* empty, manufacturer_alias when the manufacturer is non-empty,
\* product_alias when the manufacturer is empty and the product name is not,
\* and leaves its argument as it was.
C6_UniqueIdFromStatus ==
    setup.pc \in {"loaded", "raised"} =>
        LET a == setup.deviceInfo.alias
            m == setup.deviceInfo.device.manufacturer_name
            p == setup.deviceInfo.device.product_name
        IN  /\ setup.derived.arg = setup.deviceInfo
            /\ a \in {None, Str("")} => setup.derived.ret = None
            /\ (a \notin {None, Str("")} /\ m \notin {None, Str("")})
                  => setup.derived.ret = Str(m.str \o "_" \o a.str)
            /\ (a \notin {None, Str("")} /\ m \in {None, Str("")}
                  /\ p \notin {None, Str("")})
                  => setup.derived.ret = Str(p.str \o "_" \o a.str)

\* The function was applied to a snapshot with an alias, no manufacturer and
\* a product name.
C6_Witness ==
    /\ setup.pc \in {"loaded", "raised"}
    /\ setup.deviceInfo.alias = Str("lab")
    /\ setup.deviceInfo.device.manufacturer_name = Str("")
    /\ setup.derived.ret = Str("R740_lab")

\* C7: a command, whatever its request returns or raises, leaves the cached
\* snapshot and the connection parameters as they were; the only step that
\* changes the object is the end of an update(), and it changes device_info
\* alone.
C7_CommandsLeaveStateAlone ==
    [][ /\ (last' # last /\ last'.name \in CommandNames) => data' = data
        /\ data' # data =>
              /\ last'.name = "update"
              /\ last'.before = data.device_info
              /\ last'.after = data'.device_info
              /\ [data' EXCEPT !.device_info = data.device_info] = data
      ]_vars

\* A command whose request failed finished while a snapshot was cached.
C7_Witness ==
    /\ last.name \in CommandNames
    /\ IsRaise(last.ret)
    /\ last.before # None
    /\ data.device_info = last.before

\* C8: a command whose HTTP request fails logs the error once and returns
\* normally, having issued one request and no more.
C8_CommandFailureIsLogged ==
    (last.name \in CommandNames /\ IsRaise(last.ret)) =>
        /\ last.raised = None
        /\ last.logged = 1
        /\ Len(last.paths) = 1

\* A command's request raised.
C8_Witness ==
    /\ last.name = "power_cycle"
    /\ last.origin = "action"
    /\ last.ret = Raise("ConnectionError")

\* C9: the update() of a poll that timed out never stores a snapshot: when
\* it ends, the cached snapshot is what it was.
C9_TimedOutPollNeverStores ==
    (last.name = "update" /\ last.timedOut) => last.after = last.before

\* C10: the cached snapshot is None or the snapshot of one successful
\* response, and with no job in flight it is the snapshot of the last
\* successful poll to store its result.
C10_SnapshotIsWholeAndLastWriterWins ==
    /\ data.device_info \in {None} \cup {SnapshotOf(b) : b \in StatusBodies}
    /\ InFlight = 0 => data.device_info = lastWritten

\* Two polls overlapped: the update() of a timed-out poll stored its snapshot
\* over the one a later poll had returned, and no job is left in flight.
C10_Witness ==
    /\ InFlight = 0
    /\ last.name = "update"
    /\ last.timedOut
    /\ last.ret \in StatusBodies
    /\ coordinator.result = "returned"
    /\ coordinator.data = last.before
    /\ last.before # last.after
    /\ data.device_info = last.after

====
